---------------------------- MODULE Spec2Model ----------------------------
(***************************************************************************)
(* The authorization and membership core of the roadmap application: the  *)
(* tables organizations, organization_members and invitations and the six *)
(* SECURITY DEFINER procedures of                                          *)
(* supabase/migrations/20250907000000_final_schema_reset.sql.              *)
(*                                                                         *)
(* Every RPC is one PostgreSQL transaction at READ COMMITTED: each         *)
(* statement of a procedure reads the committed tables as they are when    *)
(* the statement runs, the procedure's own writes stay private until the   *)
(* transaction commits, a statement that writes a row another open         *)
(* transaction has written waits until that transaction ends, and a raised *)
(* exception discards every write of the call.                             *)
(*                                                                         *)
(* Beside them: the row-level security policies of the same migration, the *)
(* guards of the procedures' earlier revisions (unnamed/part_003,          *)
(* part_004, part_006) and the controls of TeamManagement.tsx.             *)
(***************************************************************************)
EXTENDS Integers, FiniteSets, Sequences, TLC

\* ------------------------------------------------------------------ bounds
MaxOrgs == 1
MaxInvitations == 2
MaxMemberIds == 3
\* invitations rows written by the earlier revisions' procedures
MaxRevisionInvitations == 1

\* ------------------------------------------------------------- value sets
NULL == "NULL"
NULLID == 0
Users == {"u1", "u2"}
\* auth.uid() of a request: a user, or NULL for a request with no session
Callers == Users \cup {NULL}
\* auth.users.email; profiles.email is NOT NULL UNIQUE and filled by the
\* handle_new_user trigger, so every user has an email of their own
EmailOf(u) == CASE u = "u1" -> "u1@x" [] u = "u2" -> "u2@x" [] OTHER -> NULL
Emails == {EmailOf(u) : u \in Users}
\* CREATE TYPE user_role
user_role == {"admin", "editor", "viewer"}
\* CREATE TYPE invitation_status
invitation_status == {"pending", "accepted", "declined"}
Sessions == {"s1", "s2"}

\* --------------------------------------------------------------- state
VARIABLES
  organizations,         \* committed rows of public.organizations
  organization_members,  \* committed rows of public.organization_members
  invitations,           \* committed rows of public.invitations
  nextMemberId,          \* ids of organization_members handed out so far
  sess                   \* the RPC each database session is running

vars == <<organizations, organization_members, invitations, nextMemberId, sess>>
tables == <<organizations, organization_members, invitations>>

\* The organization ids a caller may pass: those of the organizations there
\* can be
OrgIds ==
  1..(IF Cardinality(organizations) > MaxOrgs
        THEN Cardinality(organizations) ELSE MaxOrgs)

NoInvite ==
  [id |-> NULLID, organization_id |-> NULLID, invited_by |-> NULL,
   invitee_email |-> NULL, role |-> NULL, status |-> NULL]
NoMember ==
  [id |-> NULLID, organization_id |-> NULLID, user_id |-> NULL, role |-> NULL]

\* A session with no call in flight
Idle ==
  [op |-> "none", pc |-> "idle", uid |-> NULL, result |-> "none",
   org_name |-> NULL, org_id |-> NULLID, invitee_email |-> NULL,
   role |-> NULL, invitation_id |-> NULLID, member_id |-> NULLID,
   invite |-> NoInvite, member |-> NoMember,
   ins_orgs |-> {}, ins_members |-> {}, upd_members |-> {},
   del_members |-> {}, ins_invitations |-> {}, upd_invitations |-> {}]

Init ==
  /\ organizations = {}
  /\ organization_members = {}
  /\ invitations = {}
  /\ nextMemberId = 1
  /\ sess = [s \in Sessions |-> Idle]

\* ------------------------------------------------------------ helpers
\* the CASE of is_org_member
RoleLevel(role) ==
  CASE role = "admin" -> 3 [] role = "editor" -> 2 [] role = "viewer" -> 1
    [] OTHER -> 0

\* The comparison of part_004's is_org_member, "om.role >= min_role" on the
\* enum itself: CREATE TYPE user_role AS ENUM ('admin', 'editor', 'viewer')
\* orders admin lowest.
EnumPosition(role) ==
  CASE role = "admin" -> 1 [] role = "editor" -> 2 [] role = "viewer" -> 3
    [] OTHER -> 0

is_org_member_enum_order(org_id, user_id, min_role) ==
  \E m \in organization_members :
     /\ m.organization_id = org_id /\ m.user_id = user_id
     /\ EnumPosition(m.role) >= EnumPosition(min_role)

\* is_org_member(org_id, user_id, min_role): STABLE, one snapshot.
\* In "organization_members.user_id = user_id" the unqualified user_id is
\* read as the function's parameter, which is what the body is written
\* for. (PL/pgSQL resolves it so under variable_conflict = use_variable;
\* under the default setting, error, it rejects the reference as ambiguous
\* between the parameter and the column, and the call raises.)
is_org_member(org_id, user_id, min_role) ==
  LET rows == {m \in organization_members :
                  m.organization_id = org_id /\ m.user_id = user_id}
      \* SELECT ... INTO leaves user_role_level NULL when no row matches;
      \* COALESCE(user_role_level, 0)
      user_role_level ==
        IF rows = {} THEN 0 ELSE RoleLevel((CHOOSE m \in rows : TRUE).role)
      min_role_level == RoleLevel(min_role)
  IN user_role_level >= min_role_level

\* is_org_member of 20250906120000_final_permissions_fix.sql: the same two
\* CASEs, with "IF user_role_level IS NULL THEN RETURN FALSE" for COALESCE
is_org_member_permissions_fix(org_id, user_id, min_role) ==
  LET rows == {m \in organization_members :
                  m.organization_id = org_id /\ m.user_id = user_id}
  IN IF rows = {}
       THEN FALSE
       ELSE RoleLevel((CHOOSE m \in rows : TRUE).role) >= RoleLevel(min_role)

\* The ids a caller may pass: every id handed out so far and one that names
\* no row (an id never handed out and the id of a deleted row read the same).
Min(a, b) == IF a < b THEN a ELSE b
MemberIds == 1..Min(nextMemberId, MaxMemberIds)
InvitationIds == 1..Min(Cardinality(invitations) + 1, MaxInvitations)

\* ------------------------------------------------- transactions and locks
InFlight(s) == sess[s].pc \notin {"idle", "done"}

\* uuid_generate_v4() for a new organizations row: an id no row has
FreshOrgId ==
  LET used == {o.id : o \in organizations} \cup
              UNION {{o.id : o \in sess[t].ins_orgs} : t \in Sessions}
  IN CHOOSE i \in 1..(Cardinality(used) + 1) : i \notin used

\* uuid_generate_v4() for a new invitations row
FreshInvitationId ==
  LET used == {i.id : i \in invitations} \cup
              UNION {{i.id : i \in sess[t].ins_invitations} : t \in Sessions}
  IN CHOOSE i \in 1..(Cardinality(used) + 1) : i \notin used

\* Another open transaction has written the organization_members row `id`
\* (UPDATE or DELETE): a writer of that row waits for it to end.
MemberRowLocked(s, id) ==
  \E t \in Sessions \ {s} :
     \/ id \in sess[t].del_members
     \/ \E u \in sess[t].upd_members : u.id = id

\* Another open transaction has written the row of the unique key
\* (user_id, organization_id), or inserted one: INSERT ... ON CONFLICT waits.
MemberKeyLocked(s, org, user) ==
  \/ \E t \in Sessions \ {s} : \E m \in sess[t].ins_members :
        m.organization_id = org /\ m.user_id = user
  \/ \E m \in organization_members :
        m.organization_id = org /\ m.user_id = user /\ MemberRowLocked(s, m.id)

\* Another open transaction has updated the invitations row `id`.
InvitationRowLocked(s, id) ==
  \E t \in Sessions \ {s} : \E u \in sess[t].upd_invitations : u.id = id

\* RAISE EXCEPTION (or a constraint violation): the call ends with the error
\* and the transaction is rolled back, so its writes are discarded.
Raise(r, error) ==
  [r EXCEPT !.pc = "done", !.result = error,
            !.ins_orgs = {}, !.ins_members = {}, !.upd_members = {},
            !.del_members = {}, !.ins_invitations = {}, !.upd_invitations = {}]

\* The tables after the transaction of session record r commits.
CommittedMembers(r) ==
  {IF \E u \in r.upd_members : u.id = m.id
     THEN [m EXCEPT !.role = (CHOOSE u \in r.upd_members : u.id = m.id).role]
     ELSE m
   : m \in {x \in organization_members : x.id \notin r.del_members}}
  \cup r.ins_members

CommittedInvitations(r) ==
  {IF \E u \in r.upd_invitations : u.id = i.id
     THEN [i EXCEPT !.status =
             (CHOOSE u \in r.upd_invitations : u.id = i.id).status]
     ELSE i
   : i \in invitations}
  \cup r.ins_invitations

\* The procedure returned without an exception: the transaction commits and
\* all its writes become visible together.
Commit(s) ==
  /\ sess[s].pc = "commit"
  /\ organizations' = organizations \cup sess[s].ins_orgs
  /\ organization_members' = CommittedMembers(sess[s])
  /\ invitations' = CommittedInvitations(sess[s])
  /\ sess' = [sess EXCEPT ![s] =
        [@ EXCEPT !.pc = "done", !.result = "ok",
            !.ins_orgs = {}, !.ins_members = {}, !.upd_members = {},
            !.del_members = {}, !.ins_invitations = {}, !.upd_invitations = {}]]
  /\ UNCHANGED nextMemberId

\* The client has received the response; the session is free for a new call.
Return(s) ==
  /\ sess[s].pc = "done"
  /\ sess' = [sess EXCEPT ![s] = Idle]
  /\ UNCHANGED <<tables, nextMemberId>>

\* Rows of organization_members the calls in flight may still insert
MemberIdsReserved ==
  Cardinality({t \in Sessions :
     sess[t].pc \in {"create_insert_org", "create_insert_member",
                     "accept_select", "accept_identity", "accept_upsert"}})

OrgsReserved ==
  Cardinality({t \in Sessions :
     sess[t].pc \in {"create_insert_org", "create_insert_member", "commit"}
     /\ sess[t].op = "create"})

InvitationsReserved ==
  Cardinality({t \in Sessions : InFlight(t) /\ sess[t].op = "invite"})

\* ----------------------------------- create_organization_and_assign_admin
create_organization_and_assign_admin(s) ==
  /\ sess[s].pc = "idle"
  /\ Cardinality(organizations) + OrgsReserved < MaxOrgs
  /\ nextMemberId + MemberIdsReserved <= MaxMemberIds
  /\ \E uid \in Callers, org_name \in {"Acme", NULL} :
       sess' = [sess EXCEPT ![s] =
         [Idle EXCEPT !.op = "create", !.pc = "create_insert_org",
                      !.uid = uid, !.org_name = org_name]]
  /\ UNCHANGED <<tables, nextMemberId>>

\* INSERT INTO organizations (name, description, created_by) ... RETURNING id
create_insert_org(s) ==
  /\ sess[s].pc = "create_insert_org"
  /\ LET r == sess[s] IN
       sess' = [sess EXCEPT ![s] =
         IF r.org_name = NULL
           THEN Raise(r, "not_null_violation")   \* name text NOT NULL
           ELSE [r EXCEPT !.pc = "create_insert_member",
                          !.org_id = FreshOrgId,
                          !.ins_orgs = {[id |-> FreshOrgId, name |-> r.org_name,
                                         created_by |-> r.uid]}]]
  /\ UNCHANGED <<tables, nextMemberId>>

\* The second INSERT of create with the first already committed on its own
\* (the two INSERTs not in one transaction): its failure leaves the
\* organization row behind.
create_insert_member_autocommit(s) ==
  /\ sess[s].pc = "create_insert_member"
  /\ LET r == sess[s] IN
       IF r.uid = NULL
         THEN /\ sess' = [sess EXCEPT ![s] = Raise(r, "not_null_violation")]
              /\ organizations' = organizations \cup r.ins_orgs
              /\ UNCHANGED <<organization_members, invitations, nextMemberId>>
         ELSE /\ sess' = [sess EXCEPT ![s] =
                   [r EXCEPT !.pc = "commit",
                             !.ins_members =
                                {[id |-> nextMemberId, organization_id |-> r.org_id,
                                  user_id |-> r.uid, role |-> "admin"]}]]
              /\ nextMemberId' = nextMemberId + 1
              /\ UNCHANGED tables

\* INSERT INTO organization_members (organization_id, user_id, role)
\* VALUES (new_org_id, user_id, 'admin')
create_insert_member(s) ==
  /\ sess[s].pc = "create_insert_member"
  /\ LET r == sess[s] IN
       IF r.uid = NULL
         THEN /\ sess' = [sess EXCEPT ![s] = Raise(r, "not_null_violation")]
              /\ UNCHANGED nextMemberId        \* user_id uuid NOT NULL
         ELSE /\ sess' = [sess EXCEPT ![s] =
                   [r EXCEPT !.pc = "commit",
                             !.ins_members =
                                {[id |-> nextMemberId, organization_id |-> r.org_id,
                                  user_id |-> r.uid, role |-> "admin"]}]]
              /\ nextMemberId' = nextMemberId + 1
  /\ UNCHANGED tables

\* ------------------------------------------------ invite_organization_member
invite_organization_member(s) ==
  /\ sess[s].pc = "idle"
  /\ Cardinality(invitations) + InvitationsReserved < MaxInvitations
  /\ \E uid \in Callers, org_id \in OrgIds, invitee_email \in Emails,
        invitee_role \in user_role :
       sess' = [sess EXCEPT ![s] =
         [Idle EXCEPT !.op = "invite", !.pc = "invite_check", !.uid = uid,
                      !.org_id = org_id, !.invitee_email = invitee_email,
                      !.role = invitee_role]]
  /\ UNCHANGED <<tables, nextMemberId>>

\* The guard of invite with the wrong minimum role: any member passes.
InviteGuardAnyMember(r) == is_org_member(r.org_id, r.uid, "viewer")

\* IF NOT is_org_member(org_id, auth.uid(), 'admin') THEN RAISE EXCEPTION
InviteGuard(r) == is_org_member(r.org_id, r.uid, "admin")

invite_check(s) ==
  /\ sess[s].pc = "invite_check"
  /\ LET r == sess[s] IN
       sess' = [sess EXCEPT ![s] =
         IF ~InviteGuard(r)
           THEN Raise(r, "forbidden")    \* 'Only admins can invite new members.'
           ELSE [r EXCEPT !.pc = "invite_insert"]]
  /\ UNCHANGED <<tables, nextMemberId>>

\* The INSERT of invite against a table with UNIQUE (organization_id,
\* invitee_email) and ON CONFLICT DO NOTHING: a second invitation of the
\* same email to the same organization adds no row.
invite_insert_unique_email(s) ==
  /\ sess[s].pc = "invite_insert"
  /\ LET r == sess[s] IN
       sess' = [sess EXCEPT ![s] =
         [r EXCEPT !.pc = "commit",
                   !.ins_invitations =
                      IF \E i \in invitations :
                            /\ i.organization_id = r.org_id
                            /\ i.invitee_email = r.invitee_email
                        THEN {}
                        ELSE {[id |-> FreshInvitationId,
                               organization_id |-> r.org_id,
                               invited_by |-> r.uid,
                               invitee_email |-> r.invitee_email,
                               role |-> r.role, status |-> "pending"]}]]
  /\ UNCHANGED <<tables, nextMemberId>>

\* INSERT INTO invitations (organization_id, invited_by, invitee_email, role);
\* status defaults to 'pending'
invite_insert(s) ==
  /\ sess[s].pc = "invite_insert"
  /\ LET r == sess[s] IN
       sess' = [sess EXCEPT ![s] =
         [r EXCEPT !.pc = "commit",
                   !.ins_invitations =
                      {[id |-> FreshInvitationId, organization_id |-> r.org_id,
                        invited_by |-> r.uid, invitee_email |-> r.invitee_email,
                        role |-> r.role, status |-> "pending"]}]]
  /\ UNCHANGED <<tables, nextMemberId>>

\* ----------------------------------------------------------- accept_invitation
\* The SELECT of accept and decline without "AND status = 'pending'"
SelectInvitationAnyStatus(invitation_id) ==
  LET rows == {i \in invitations : i.id = invitation_id}
  IN IF rows = {} THEN NoInvite ELSE CHOOSE i \in rows : TRUE

\* SELECT * INTO invite FROM invitations WHERE id = invitation_id AND
\* status = 'pending': the row, or a record of NULLs
SelectPendingInvitation(invitation_id) ==
  LET rows == {i \in invitations :
                 i.id = invitation_id /\ i.status = "pending"}
  IN IF rows = {} THEN NoInvite ELSE CHOOSE i \in rows : TRUE

\* The identity check with the comparison inverted (= for !=)
EmailDiffersInverted(uid, invitee_email) ==
  /\ EmailOf(uid) # NULL
  /\ invitee_email # NULL
  /\ EmailOf(uid) = invitee_email

\* (SELECT email FROM auth.users WHERE id = auth.uid()) != invite.invitee_email
\* A NULL on either side makes the comparison NULL, and IF NULL is not taken.
EmailDiffers(uid, invitee_email) ==
  /\ EmailOf(uid) # NULL
  /\ invitee_email # NULL
  /\ EmailOf(uid) # invitee_email

accept_invitation(s) ==
  /\ sess[s].pc = "idle"
  /\ nextMemberId + MemberIdsReserved <= MaxMemberIds
  /\ \E uid \in Callers, invitation_id \in InvitationIds :
       sess' = [sess EXCEPT ![s] =
         [Idle EXCEPT !.op = "accept", !.pc = "accept_select", !.uid = uid,
                      !.invitation_id = invitation_id]]
  /\ UNCHANGED <<tables, nextMemberId>>

\* The two tests of accept in the order of part_006: the row is selected
\* whatever its status, the caller's identity is tested first and the status
\* after it.
accept_select_identity_first(s) ==
  /\ sess[s].pc = "accept_select"
  /\ LET r == sess[s]
         invite == SelectInvitationAnyStatus(r.invitation_id)
     IN sess' = [sess EXCEPT ![s] =
          IF invite # NoInvite /\ EmailDiffers(r.uid, invite.invitee_email)
            THEN Raise(r, "forbidden")
            ELSE IF invite = NoInvite \/ invite.status # "pending"
                   THEN Raise(r, "not_found")
                   ELSE [r EXCEPT !.pc = "accept_identity", !.invite = invite]]
  /\ UNCHANGED <<tables, nextMemberId>>

accept_select(s) ==
  /\ sess[s].pc = "accept_select"
  /\ LET r == sess[s]
         invite == SelectPendingInvitation(r.invitation_id)
     IN sess' = [sess EXCEPT ![s] =
          IF invite = NoInvite                      \* IF invite IS NULL
            THEN Raise(r, "not_found")  \* 'Invitation not found or already actioned.'
            ELSE [r EXCEPT !.pc = "accept_identity", !.invite = invite]]
  /\ UNCHANGED <<tables, nextMemberId>>

accept_identity(s) ==
  /\ sess[s].pc = "accept_identity"
  /\ LET r == sess[s] IN
       sess' = [sess EXCEPT ![s] =
         IF EmailDiffers(r.uid, r.invite.invitee_email)
           THEN Raise(r, "forbidden")  \* 'You are not authorized to accept ...'
           ELSE [r EXCEPT !.pc = "accept_upsert"]]
  /\ UNCHANGED <<tables, nextMemberId>>

\* The INSERT of accept with neither the ON CONFLICT clause nor the UNIQUE
\* (user_id, organization_id) constraint behind it: a new row every time.
accept_insert_no_unique(s) ==
  /\ sess[s].pc = "accept_upsert"
  /\ LET r == sess[s] IN
       IF r.uid = NULL
         THEN /\ sess' = [sess EXCEPT ![s] = Raise(r, "not_null_violation")]
              /\ UNCHANGED nextMemberId
         ELSE /\ sess' = [sess EXCEPT ![s] =
                   [r EXCEPT !.pc = "accept_update",
                      !.ins_members =
                         {[id |-> nextMemberId,
                           organization_id |-> r.invite.organization_id,
                           user_id |-> r.uid, role |-> r.invite.role]}]]
              /\ nextMemberId' = nextMemberId + 1
  /\ UNCHANGED tables

\* The upsert of accept committed on its own (the two statements of accept
\* not in one transaction): the membership is visible while the invitation
\* is still pending.
accept_upsert_autocommit(s) ==
  /\ sess[s].pc = "accept_upsert"
  /\ LET r == sess[s]
         org == r.invite.organization_id
         rows == {m \in organization_members :
                    m.organization_id = org /\ m.user_id = r.uid}
     IN IF r.uid = NULL
          THEN /\ sess' = [sess EXCEPT ![s] = Raise(r, "not_null_violation")]
               /\ UNCHANGED <<organization_members, nextMemberId>>
          ELSE /\ sess' = [sess EXCEPT ![s] = [r EXCEPT !.pc = "accept_update"]]
               /\ IF rows = {}
                    THEN /\ organization_members' = organization_members \cup
                              {[id |-> nextMemberId, organization_id |-> org,
                                user_id |-> r.uid, role |-> r.invite.role]}
                         /\ nextMemberId' = nextMemberId + 1
                    ELSE /\ organization_members' =
                              {IF m \in rows THEN [m EXCEPT !.role = r.invite.role]
                                             ELSE m : m \in organization_members}
                         /\ UNCHANGED nextMemberId
  /\ UNCHANGED <<organizations, invitations>>

\* INSERT INTO organization_members (organization_id, user_id, role)
\* VALUES (invite.organization_id, auth.uid(), invite.role)
\* ON CONFLICT (user_id, organization_id) DO UPDATE SET role = invite.role
accept_upsert(s) ==
  /\ sess[s].pc = "accept_upsert"
  /\ LET r == sess[s]
         org == r.invite.organization_id
         rows == {m \in organization_members :
                    m.organization_id = org /\ m.user_id = r.uid}
     IN IF r.uid = NULL
          THEN /\ sess' = [sess EXCEPT ![s] = Raise(r, "not_null_violation")]
               /\ UNCHANGED nextMemberId       \* user_id uuid NOT NULL
          ELSE /\ ~MemberKeyLocked(s, org, r.uid)
               /\ IF rows = {}
                    THEN /\ sess' = [sess EXCEPT ![s] =
                              [r EXCEPT !.pc = "accept_update",
                                 !.ins_members =
                                    {[id |-> nextMemberId, organization_id |-> org,
                                      user_id |-> r.uid, role |-> r.invite.role]}]]
                         /\ nextMemberId' = nextMemberId + 1
                    ELSE /\ sess' = [sess EXCEPT ![s] =
                              [r EXCEPT !.pc = "accept_update",
                                 !.upd_members =
                                    {[id |-> (CHOOSE m \in rows : TRUE).id,
                                      role |-> r.invite.role]}]]
                         /\ UNCHANGED nextMemberId
  /\ UNCHANGED tables

\* The UPDATE of accept keyed on the invitee instead of the id: WHERE
\* invitee_email = invite.invitee_email, in whatever organization
AcceptUpdateTargetsOfInvitee(invitation_id) ==
  {i \in invitations :
     i.invitee_email = SelectInvitationAnyStatus(invitation_id).invitee_email}

\* The rows UPDATE invitations SET status = 'accepted' WHERE id = invitation_id
\* writes: the row of that id, whatever its status
AcceptUpdateTargets(invitation_id) ==
  {i \in invitations : i.id = invitation_id}

accept_update(s) ==
  /\ sess[s].pc = "accept_update"
  /\ ~InvitationRowLocked(s, sess[s].invitation_id)
  /\ LET r == sess[s] IN
       sess' = [sess EXCEPT ![s] =
         [r EXCEPT !.pc = "commit",
                   !.upd_invitations =
                      {[id |-> i.id, status |-> "accepted"] :
                         i \in AcceptUpdateTargets(r.invitation_id)}]]
  /\ UNCHANGED <<tables, nextMemberId>>

\* ---------------------------------------------------------- decline_invitation
decline_invitation(s) ==
  /\ sess[s].pc = "idle"
  /\ \E uid \in Callers, invitation_id \in InvitationIds :
       sess' = [sess EXCEPT ![s] =
         [Idle EXCEPT !.op = "decline", !.pc = "decline_select", !.uid = uid,
                      !.invitation_id = invitation_id]]
  /\ UNCHANGED <<tables, nextMemberId>>

\* The SELECT of decline as in part_006: the row of that id whatever its
\* status, so an invitation already actioned is declined again.
decline_select_any_status(s) ==
  /\ sess[s].pc = "decline_select"
  /\ LET r == sess[s]
         invite == SelectInvitationAnyStatus(r.invitation_id)
     IN sess' = [sess EXCEPT ![s] =
          IF invite = NoInvite
            THEN Raise(r, "not_found")
            ELSE [r EXCEPT !.pc = "decline_identity", !.invite = invite]]
  /\ UNCHANGED <<tables, nextMemberId>>

decline_select(s) ==
  /\ sess[s].pc = "decline_select"
  /\ LET r == sess[s]
         invite == SelectPendingInvitation(r.invitation_id)
     IN sess' = [sess EXCEPT ![s] =
          IF invite = NoInvite
            THEN Raise(r, "not_found")
            ELSE [r EXCEPT !.pc = "decline_identity", !.invite = invite]]
  /\ UNCHANGED <<tables, nextMemberId>>

decline_identity(s) ==
  /\ sess[s].pc = "decline_identity"
  /\ LET r == sess[s] IN
       sess' = [sess EXCEPT ![s] =
         IF EmailDiffers(r.uid, r.invite.invitee_email)
           THEN Raise(r, "forbidden")  \* 'You are not authorized to decline ...'
           ELSE [r EXCEPT !.pc = "decline_update"]]
  /\ UNCHANGED <<tables, nextMemberId>>

\* UPDATE invitations SET status = 'declined' WHERE id = invitation_id
decline_update(s) ==
  /\ sess[s].pc = "decline_update"
  /\ ~InvitationRowLocked(s, sess[s].invitation_id)
  /\ LET r == sess[s] IN
       sess' = [sess EXCEPT ![s] =
         [r EXCEPT !.pc = "commit",
                   !.upd_invitations =
                      {[id |-> i.id, status |-> "declined"] :
                         i \in {x \in invitations : x.id = r.invitation_id}}]]
  /\ UNCHANGED <<tables, nextMemberId>>

\* ---------------------------------------------- update_organization_member_role
\* SELECT * INTO member FROM organization_members WHERE id = member_id
SelectMember(member_id) ==
  LET rows == {m \in organization_members : m.id = member_id}
  IN IF rows = {} THEN NoMember ELSE CHOOSE m \in rows : TRUE

update_organization_member_role(s) ==
  /\ sess[s].pc = "idle"
  /\ \E uid \in Callers, member_id \in MemberIds, new_role \in user_role :
       sess' = [sess EXCEPT ![s] =
         [Idle EXCEPT !.op = "update_role", !.pc = "update_select", !.uid = uid,
                      !.member_id = member_id, !.role = new_role]]
  /\ UNCHANGED <<tables, nextMemberId>>

update_select(s) ==
  /\ sess[s].pc = "update_select"
  /\ LET r == sess[s] IN
       sess' = [sess EXCEPT ![s] =
         [r EXCEPT !.pc = "update_check", !.member = SelectMember(r.member_id)]]
  /\ UNCHANGED <<tables, nextMemberId>>

\* The guard of update_organization_member_role with the wrong minimum role:
\* any member of the organization passes.
UpdateRoleGuardAnyMember(r) ==
  is_org_member(r.member.organization_id, r.uid, "viewer")

\* The condition under which update_organization_member_role goes on to its
\* UPDATE: IF NOT is_org_member(member.organization_id, auth.uid(), 'admin')
\* THEN RAISE EXCEPTION. There is no other test.
UpdateRoleGuard(r) == is_org_member(r.member.organization_id, r.uid, "admin")

update_check(s) ==
  /\ sess[s].pc = "update_check"
  /\ LET r == sess[s] IN
       sess' = [sess EXCEPT ![s] =
         IF ~UpdateRoleGuard(r)
           THEN Raise(r, "forbidden")       \* 'Only admins can change roles.'
           ELSE [r EXCEPT !.pc = "update_write"]]
  /\ UNCHANGED <<tables, nextMemberId>>

\* UPDATE organization_members SET role = new_role WHERE id = member_id
update_write(s) ==
  /\ sess[s].pc = "update_write"
  /\ ~MemberRowLocked(s, sess[s].member_id)
  /\ LET r == sess[s] IN
       sess' = [sess EXCEPT ![s] =
         [r EXCEPT !.pc = "commit",
                   !.upd_members =
                      {[id |-> m.id, role |-> r.role] :
                         m \in {x \in organization_members : x.id = r.member_id}}]]
  /\ UNCHANGED <<tables, nextMemberId>>

\* --------------------------------------------------- remove_organization_member
remove_organization_member(s) ==
  /\ sess[s].pc = "idle"
  /\ \E uid \in Callers, member_id \in MemberIds :
       sess' = [sess EXCEPT ![s] =
         [Idle EXCEPT !.op = "remove", !.pc = "remove_select", !.uid = uid,
                      !.member_id = member_id]]
  /\ UNCHANGED <<tables, nextMemberId>>

remove_select(s) ==
  /\ sess[s].pc = "remove_select"
  /\ LET r == sess[s] IN
       sess' = [sess EXCEPT ![s] =
         [r EXCEPT !.pc = "remove_check", !.member = SelectMember(r.member_id)]]
  /\ UNCHANGED <<tables, nextMemberId>>

\* The condition under which remove_organization_member goes on to its DELETE:
\* IF NOT is_org_member(member.organization_id, auth.uid(), 'admin') THEN
\* RAISE EXCEPTION. There is no other test.
RemoveGuard(r) == is_org_member(r.member.organization_id, r.uid, "admin")

\* remove with its DELETE run, and committed on its own, before the guard:
\* the call of a non-admin ends in the error with the row already gone.
remove_check_after_delete(s) ==
  /\ sess[s].pc = "remove_check"
  /\ LET r == sess[s] IN
       /\ sess' = [sess EXCEPT ![s] =
            IF ~RemoveGuard(r)
              THEN Raise(r, "forbidden")
              ELSE [r EXCEPT !.pc = "commit"]]
       /\ organization_members' =
            {m \in organization_members : m.id # r.member_id}
  /\ UNCHANGED <<organizations, invitations, nextMemberId>>

remove_check(s) ==
  /\ sess[s].pc = "remove_check"
  /\ LET r == sess[s] IN
       sess' = [sess EXCEPT ![s] =
         IF ~RemoveGuard(r)
           THEN Raise(r, "forbidden")       \* 'Only admins can remove members.'
           ELSE [r EXCEPT !.pc = "remove_delete"]]
  /\ UNCHANGED <<tables, nextMemberId>>

\* DELETE FROM organization_members WHERE id = member_id
remove_delete(s) ==
  /\ sess[s].pc = "remove_delete"
  /\ ~MemberRowLocked(s, sess[s].member_id)
  /\ LET r == sess[s] IN
       sess' = [sess EXCEPT ![s] =
         [r EXCEPT !.pc = "commit",
                   !.del_members =
                      {m.id : m \in {x \in organization_members :
                                        x.id = r.member_id}}]]
  /\ UNCHANGED <<tables, nextMemberId>>

\* ----------------------------------------------------------- row-level security
\* The policies that govern statements a client sends to the tables
\* themselves (supabase.from(...)), outside the SECURITY DEFINER procedures.
\* auth.uid() is NULL for a request with no session.

\* "Allow members to view their own organizations" FOR SELECT
OrganizationsViewPolicy(uid, org) ==
  \E m \in organization_members :
     m.organization_id = org.id /\ uid # NULL /\ m.user_id = uid

\* "Allow members to view memberships in their organizations" FOR SELECT
MembersViewPolicy(uid, row) ==
  \E om2 \in organization_members :
     om2.organization_id = row.organization_id /\ uid # NULL /\ om2.user_id = uid

\* "Allow user to see their own invitations" FOR SELECT
InvitationsSeeOwnPolicy(uid, row) ==
  EmailOf(uid) # NULL /\ EmailOf(uid) = row.invitee_email

\* The FOR ALL policy of invitations with the wrong minimum role: every
\* member of the organization passes.
InvitationsAnyMemberPolicy(uid, row) ==
  is_org_member(row.organization_id, uid, "viewer")

\* "Allow admin to manage invitations in their org" FOR ALL: SELECT, INSERT,
\* UPDATE and DELETE, the USING expression serving as WITH CHECK too
InvitationsAdminManagePolicy(uid, row) ==
  is_org_member(row.organization_id, uid, "admin")

\* Rows a SELECT of the caller returns: permissive policies are ORed.
CanSelectOrganization(uid, org) == OrganizationsViewPolicy(uid, org)
CanSelectMember(uid, row) == MembersViewPolicy(uid, row)
CanSelectInvitation(uid, row) ==
  InvitationsSeeOwnPolicy(uid, row) \/ InvitationsAdminManagePolicy(uid, row)

\* An UPDATE of invitations passes when the row is visible to the caller,
\* a policy for UPDATE admits the old row and its WITH CHECK the new one.
\* Only the FOR ALL policy is a policy for UPDATE.
CanUpdateInvitation(uid, old, new) ==
  /\ CanSelectInvitation(uid, old)
  /\ InvitationsAdminManagePolicy(uid, old)
  /\ InvitationsAdminManagePolicy(uid, new)

\* The INSERT policy of part_007, "Authenticated users can create
\* organizations." FOR INSERT TO authenticated WITH CHECK (true)
CanInsertOrganizationAuthenticated(uid, row) == uid # NULL

\* An INSERT into organizations by a client: row-level security is enabled
\* and the table has no policy FOR INSERT or FOR ALL, so no row passes.
CanInsertOrganization(uid, row) == FALSE

\* supabase.from('organizations').insert({name, created_by}): one statement,
\* committed on its own, or refused with 'new row violates row-level
\* security policy'.
insert_organizations_direct(s) ==
  /\ sess[s].pc = "idle"
  /\ Cardinality(organizations) + OrgsReserved < MaxOrgs
  /\ \E uid \in Callers :
       LET row == [id |-> FreshOrgId, name |-> "Acme", created_by |-> uid]
           r == [Idle EXCEPT !.op = "insert_organizations", !.pc = "done",
                             !.uid = uid, !.org_id = row.id]
       IN IF CanInsertOrganization(uid, row)
            THEN /\ organizations' = organizations \cup {row}
                 /\ sess' = [sess EXCEPT ![s] = [r EXCEPT !.result = "ok"]]
            ELSE /\ UNCHANGED organizations
                 /\ sess' = [sess EXCEPT ![s] =
                               [r EXCEPT !.result = "rls_violation"]]
  /\ UNCHANGED <<organization_members, invitations, nextMemberId>>

\* supabase.from('invitations').update({status, role, invitee_email})
\* .eq('id', ...): one statement, committed on its own.
update_invitations_direct(s) ==
  /\ sess[s].pc = "idle"
  /\ \E uid \in Callers, row \in invitations, new_status \in invitation_status,
        new_role \in user_role, new_email \in Emails :
       LET new == [row EXCEPT !.status = new_status, !.role = new_role,
                              !.invitee_email = new_email]
       IN /\ new # row
          /\ CanUpdateInvitation(uid, row, new)
          /\ invitations' = (invitations \ {row}) \cup {new}
  /\ UNCHANGED <<organizations, organization_members, nextMemberId, sess>>

\* ------------------------------------------------------------ specifications
\* A new RPC arrives on session s.
Call(s) ==
  \/ create_organization_and_assign_admin(s)
  \/ invite_organization_member(s)
  \/ accept_invitation(s)
  \/ decline_invitation(s)
  \/ update_organization_member_role(s)
  \/ remove_organization_member(s)

\* The call on session s runs its next statement.
Statement(s) ==
  \/ create_insert_org(s) \/ create_insert_member(s)
  \/ invite_check(s) \/ invite_insert(s)
  \/ accept_select(s) \/ accept_identity(s) \/ accept_upsert(s)
  \/ accept_update(s)
  \/ decline_select(s) \/ decline_identity(s) \/ decline_update(s)
  \/ update_select(s) \/ update_check(s) \/ update_write(s)
  \/ remove_select(s) \/ remove_check(s) \/ remove_delete(s)
  \/ Commit(s)

\* The procedures executed one at a time, any number of calls
Next == Call("s1") \/ Statement("s1") \/ Return("s1")

Spec == Init /\ [][Next]_vars

\* Tables the sequential specification reaches with no call in flight: the
\* empty database; u1's organization with a pending invitation of u2; the
\* same organization after u2 accepted a first invitation (at any role) and
\* was invited again.
Org1 == [id |-> 1, name |-> "Acme", created_by |-> "u1"]
Member1 == [id |-> 1, organization_id |-> 1, user_id |-> "u1", role |-> "admin"]
Member2(role) == [id |-> 2, organization_id |-> 1, user_id |-> "u2", role |-> role]
InviteOfU2(id, role, status) ==
  [id |-> id, organization_id |-> 1, invited_by |-> "u1",
   invitee_email |-> "u2@x", role |-> role, status |-> status]

StartTables ==
  {<<{}, {}, {}, 1>>}
  \cup {<<{Org1}, {Member1}, {InviteOfU2(1, pr, "pending")}, 2>> :
          pr \in user_role}
  \cup {<<{Org1}, {Member1, Member2(r2)},
          {InviteOfU2(1, r2, "accepted"), InviteOfU2(2, pr, "pending")}, 3>> :
          r2 \in user_role, pr \in user_role}

InitStart ==
  /\ \E t \in StartTables :
        /\ organizations = t[1]
        /\ organization_members = t[2]
        /\ invitations = t[3]
        /\ nextMemberId = t[4]
  /\ sess = [s \in Sessions |-> Idle]

\* The statements a client sends to the tables themselves, one request at a
\* time, with the procedures that write the same rows: create for
\* organizations rows, accept_invitation and decline_invitation for existing
\* invitations rows.
NextDirect ==
  \/ create_organization_and_assign_admin("s1")
  \/ create_insert_org("s1") \/ create_insert_member("s1")
  \/ insert_organizations_direct("s1")
  \/ accept_invitation("s1") \/ decline_invitation("s1")
  \/ accept_select("s1") \/ accept_identity("s1") \/ accept_upsert("s1")
  \/ accept_update("s1")
  \/ decline_select("s1") \/ decline_identity("s1") \/ decline_update("s1")
  \/ Commit("s1") \/ Return("s1")
  \/ update_invitations_direct("s1")

SpecDirect == InitStart /\ [][NextDirect]_vars

\* Two RPCs, one per session, running concurrently: their statements
\* interleave in every order the row locks allow.
NextRace == \E s \in Sessions : Call(s) \/ Statement(s)

SpecRace == InitStart /\ [][NextRace]_vars

\* Two RPCs in sequence: the call on s2 starts after the call on s1 returned.
NextPair ==
  \/ Call("s1") \/ Statement("s1")
  \/ (sess["s1"].pc = "done" /\ Call("s2")) \/ Statement("s2")

SpecPair == InitStart /\ [][NextPair]_vars

\* Two organizations side by side, u1 the admin of the first and u2 of the
\* second, and the five procedures that act on an existing organization,
\* called one at a time.
Org2 == [id |-> 2, name |-> "Bolt", created_by |-> "u2"]
Member2Org2 ==
  [id |-> 2, organization_id |-> 2, user_id |-> "u2", role |-> "admin"]

InitTwoOrgs ==
  /\ organizations = {Org1, Org2}
  /\ organization_members = {Member1, Member2Org2}
  /\ invitations = {}
  /\ nextMemberId = 3
  /\ sess = [s \in Sessions |-> Idle]

NextTwoOrgs ==
  \/ invite_organization_member("s1")
  \/ accept_invitation("s1")
  \/ decline_invitation("s1")
  \/ update_organization_member_role("s1")
  \/ remove_organization_member("s1")
  \/ invite_check("s1") \/ invite_insert("s1")
  \/ accept_select("s1") \/ accept_identity("s1") \/ accept_upsert("s1")
  \/ accept_update("s1")
  \/ decline_select("s1") \/ decline_identity("s1") \/ decline_update("s1")
  \/ update_select("s1") \/ update_check("s1") \/ update_write("s1")
  \/ remove_select("s1") \/ remove_check("s1") \/ remove_delete("s1")
  \/ Commit("s1") \/ Return("s1")

SpecTwoOrgs == InitTwoOrgs /\ [][NextTwoOrgs]_vars

\* ------------------------------------------------- TeamManagement.tsx
\* What the component has on screen is what it last fetched: its
\* organization prop (with the user's role in it) and the members list of
\* fetchMembers, either of which may be stale when the user clicks. A
\* membership row keeps its id, user_id and organization_id for as long as
\* it exists and ids are not reused, so a listed row whose id is still in
\* the table shows that row's user; a listed row since deleted may show
\* any user. The role shown for it, and organization.role, may be any role
\* held at the time of the fetch.
ListedMembers ==
  {m \in [id : MemberIds, organization_id : OrgIds, user_id : Users,
          role : user_role] :
     \A x \in organization_members :
        x.id = m.id => /\ x.user_id = m.user_id
                       /\ x.organization_id = m.organization_id}

\* The condition without the test of the member's user: the controls on
\* every row, the admin's own included
ShowsControlsOnOwnRow(currentUserRole, member, user_id) ==
  currentUserRole = "admin"

\* currentUserRole === 'admin' && member.user_id !== user?.id: the condition
\* under which a row gets its role <select> and its remove button
ShowsControls(currentUserRole, member, user_id) ==
  currentUserRole = "admin" /\ member.user_id # user_id

\* onChange of a row's <select>: supabase.rpc('update_organization_member_role',
\* {member_id: member.id, new_role})
handleUpdateRole(s) ==
  /\ sess[s].pc = "idle"
  /\ \E user \in Callers, currentUserRole \in user_role,
        member \in ListedMembers, newRole \in user_role :
       /\ ShowsControls(currentUserRole, member, user)
       /\ sess' = [sess EXCEPT ![s] =
            [Idle EXCEPT !.op = "update_role", !.pc = "update_select",
                         !.uid = user, !.member_id = member.id,
                         !.role = newRole]]
  /\ UNCHANGED <<tables, nextMemberId>>

\* onClick of a row's remove button, confirmed:
\* supabase.rpc('remove_organization_member', {member_id: member.id})
handleRemoveMember(s) ==
  /\ sess[s].pc = "idle"
  /\ \E user \in Callers, currentUserRole \in user_role,
        member \in ListedMembers :
       /\ ShowsControls(currentUserRole, member, user)
       /\ sess' = [sess EXCEPT ![s] =
            [Idle EXCEPT !.op = "remove", !.pc = "remove_select",
                         !.uid = user, !.member_id = member.id]]
  /\ UNCHANGED <<tables, nextMemberId>>

\* update_organization_member_role and remove_organization_member called
\* through the component only, one call at a time
NextTeam ==
  \/ handleUpdateRole("s1") \/ handleRemoveMember("s1")
  \/ update_select("s1") \/ update_check("s1") \/ update_write("s1")
  \/ remove_select("s1") \/ remove_check("s1") \/ remove_delete("s1")
  \/ Commit("s1") \/ Return("s1")

SpecTeam == InitStart /\ [][NextTeam]_vars

\* ------------------------------------------------- earlier revisions
\* SELECT count(*) ... WHERE organization_id = org_id AND role = 'admin'
AdminsOf(org_id) ==
  {m \in organization_members :
     m.organization_id = org_id /\ m.role = "admin"}

\* SQL's three-valued logic: a condition is true, false or NULL, and an IF
\* whose condition is NULL does not take its THEN branch.
SqlTrue == "t"
SqlFalse == "f"
SqlBool(b) == IF b THEN SqlTrue ELSE SqlFalse
SqlNotEqual(a, b) == IF a = NULL \/ b = NULL THEN NULL ELSE SqlBool(a # b)
SqlNot(c) ==
  CASE c = SqlTrue -> SqlFalse [] c = SqlFalse -> SqlTrue [] OTHER -> NULL
IfTaken(c) == c = SqlTrue

\* part_003: SELECT role INTO current_user_role FROM organization_members
\* WHERE organization_id = org_id AND user_id = auth.uid(); NULL when no
\* row matches
current_user_role(org_id, uid) ==
  LET rows == {m \in organization_members :
                  m.organization_id = org_id /\ m.user_id = uid}
  IN IF rows = {} THEN NULL ELSE (CHOOSE m \in rows : TRUE).role

\* part_006's is_org_member: the two CASEs and
\* "RETURN user_role_level >= min_role_level" with no COALESCE, so the
\* result is NULL when SELECT ... INTO found no membership row. The
\* unqualified user_id is read as the parameter, as in is_org_member.
is_org_member_part_006(org_id, user_id, min_role) ==
  LET rows == {m \in organization_members :
                  m.organization_id = org_id /\ m.user_id = user_id}
  IN IF rows = {}
       THEN NULL
       ELSE SqlBool(RoleLevel((CHOOSE m \in rows : TRUE).role)
                      >= RoleLevel(min_role))

\* part_004's is_org_member, LANGUAGE sql: EXISTS (SELECT 1 FROM
\* organization_members om WHERE om.organization_id = org_id AND
\* om.user_id = user_id AND om.role >= min_role). In an SQL-language
\* function a name that is both a column of the command and a parameter
\* is the column, so "om.user_id = user_id" compares the row's user_id
\* with itself (true, the column being NOT NULL); "om.role >= min_role"
\* compares positions in CREATE TYPE user_role.
is_org_member_part_004(org_id, user_id, min_role) ==
  \E om \in organization_members :
     /\ om.organization_id = org_id
     /\ om.user_id = om.user_id
     /\ EnumPosition(om.role) >= EnumPosition(min_role)

\* A whole call of a revision's procedure, run alone: the record of the
\* call as it returned, with the caller and the organization or member row
\* the call names
Returned(op, uid, result) ==
  [Idle EXCEPT !.op = op, !.pc = "done", !.uid = uid, !.result = result]

UserOfEmail(email) ==
  IF \E u \in Users : EmailOf(u) = email
    THEN CHOOSE u \in Users : EmailOf(u) = email
    ELSE NULL

\* part_003's invite_organization_member(org_id, invitee_email,
\* invitee_role): adds the member row itself
invite_organization_member_part_003(s) ==
  \E uid \in Callers, org_id \in OrgIds, invitee_email \in Emails \cup {"nobody@x"},
     invitee_role \in user_role :
    LET call == [Returned("invite_part_003", uid, "ok") EXCEPT
                   !.org_id = org_id]
        invitee_user_id == UserOfEmail(invitee_email)
        refused(error) ==
          /\ sess' = [sess EXCEPT ![s] = [call EXCEPT !.result = error]]
          /\ UNCHANGED <<organizations, organization_members, invitations,
                         nextMemberId>>
    IN IF IfTaken(SqlNotEqual(current_user_role(org_id, uid), "admin"))
         THEN refused("forbidden")
         ELSE IF invitee_user_id = NULL
           THEN refused("not_found")
           ELSE IF \E m \in organization_members :
                      m.organization_id = org_id /\ m.user_id = invitee_user_id
             THEN refused("already_member")
             ELSE /\ nextMemberId <= MaxMemberIds
                  /\ organization_members' = organization_members \cup
                       {[id |-> nextMemberId, organization_id |-> org_id,
                         user_id |-> invitee_user_id, role |-> invitee_role]}
                  /\ nextMemberId' = nextMemberId + 1
                  /\ sess' = [sess EXCEPT ![s] = call]
                  /\ UNCHANGED <<organizations, invitations>>

\* part_003's update_organization_member_role(member_id, new_role)
update_organization_member_role_part_003(s) ==
  \E uid \in Callers, member_id \in MemberIds, new_role \in user_role :
    LET member == SelectMember(member_id)
        org_id == member.organization_id
        call == [Returned("update_role_part_003", uid, "ok") EXCEPT
                   !.member_id = member_id]
    IN IF IfTaken(SqlNotEqual(current_user_role(org_id, uid), "admin"))
         THEN /\ sess' = [sess EXCEPT ![s] = [call EXCEPT !.result = "forbidden"]]
              /\ UNCHANGED <<organizations, organization_members, invitations,
                             nextMemberId>>
         ELSE /\ organization_members' =
                   {IF m.id = member_id THEN [m EXCEPT !.role = new_role] ELSE m :
                      m \in organization_members}
              /\ sess' = [sess EXCEPT ![s] = call]
              /\ UNCHANGED <<organizations, invitations, nextMemberId>>

\* part_003's remove_organization_member(member_id), with the last-admin
\* test
remove_organization_member_part_003(s) ==
  \E uid \in Callers, member_id \in MemberIds :
    LET member == SelectMember(member_id)
        org_id == member.organization_id
        member_user_id == member.user_id
        call == [Returned("remove_part_003", uid, "ok") EXCEPT
                   !.member_id = member_id]
        refused(error) ==
          /\ sess' = [sess EXCEPT ![s] = [call EXCEPT !.result = error]]
          /\ UNCHANGED <<organizations, organization_members, invitations,
                         nextMemberId>>
    IN IF IfTaken(SqlNotEqual(current_user_role(org_id, uid), "admin"))
         THEN refused("forbidden")
         ELSE IF /\ Cardinality(AdminsOf(org_id)) = 1
                 /\ member_user_id # NULL /\ uid # NULL
                 /\ member_user_id = uid
           THEN refused("last_admin")
           ELSE /\ organization_members' =
                     {m \in organization_members : m.id # member_id}
                /\ sess' = [sess EXCEPT ![s] = call]
                /\ UNCHANGED <<organizations, invitations, nextMemberId>>

\* part_006's invite_organization_member: IF NOT is_org_member(org_id,
\* auth.uid(), 'admin') THEN RAISE; INSERT INTO invitations
invite_organization_member_part_006(s) ==
  \E uid \in Callers, org_id \in OrgIds, invitee_email \in Emails,
     invitee_role \in user_role :
    LET call == [Returned("invite_part_006", uid, "ok") EXCEPT
                   !.org_id = org_id]
    IN IF IfTaken(SqlNot(is_org_member_part_006(org_id, uid, "admin")))
         THEN /\ sess' = [sess EXCEPT ![s] = [call EXCEPT !.result = "forbidden"]]
              /\ UNCHANGED <<organizations, organization_members, invitations,
                             nextMemberId>>
         ELSE /\ Cardinality(invitations) < MaxRevisionInvitations
              /\ invitations' = invitations \cup
                   {[id |-> Cardinality(invitations) + 1,
                     organization_id |-> org_id, invited_by |-> uid,
                     invitee_email |-> invitee_email, role |-> invitee_role,
                     status |-> "pending"]}
              /\ sess' = [sess EXCEPT ![s] = call]
              /\ UNCHANGED <<organizations, organization_members, nextMemberId>>

\* The revisions' procedures called one at a time on u1's organization,
\* u2 being a member of it at some role or not a member
InitRevisions ==
  /\ organizations = {Org1}
  /\ \/ organization_members = {Member1} /\ nextMemberId = 2
     \/ \E r2 \in user_role :
          organization_members = {Member1, Member2(r2)} /\ nextMemberId = 3
  /\ invitations = {}
  /\ sess = [s \in Sessions |-> Idle]

NextRevisions ==
  \/ invite_organization_member_part_003("s1")
  \/ update_organization_member_role_part_003("s1")
  \/ remove_organization_member_part_003("s1")
  \/ invite_organization_member_part_006("s1")

SpecRevisions == InitRevisions /\ [][NextRevisions]_vars

\* ------------------------------------------------------------------ claims
AdminRows(org) ==
  {m \in organization_members : m.organization_id = org /\ m.role = "admin"}

MemberRows(org, user) ==
  {m \in organization_members : m.organization_id = org /\ m.user_id = user}

\* C1: in every reachable state every organization has at least one
\* membership row with role admin.
C1_EveryOrgHasAdmin ==
  \A o \in organizations : Cardinality(AdminRows(o.id)) >= 1

\* C2: create_organization_and_assign_admin is atomic. A step that makes an
\* organization row visible makes the admin membership of its creator visible
\* with it; a create call that ends in an error never changes a table; and a
\* call that has just returned successfully leaves its caller an admin of
\* the new organization.
C2_CreateAtomic ==
  [][ /\ \A o \in organizations' \ organizations :
            \E m \in organization_members' \ organization_members :
               /\ m.organization_id = o.id
               /\ m.user_id = o.created_by
               /\ m.role = "admin"
      /\ \A s \in Sessions :
            /\ (sess[s].op = "create" /\ InFlight(s) /\ sess'[s].result # "ok")
                  => /\ tables' = tables
                     /\ \A o \in sess[s].ins_orgs : o \notin organizations'
            /\ (sess'[s].op = "create" /\ sess'[s].pc = "done"
                  /\ sess'[s].result = "ok")
                  => \E m \in organization_members' :
                        /\ m.organization_id = sess'[s].org_id
                        /\ m.user_id = sess'[s].uid
                        /\ m.role = "admin"
    ]_vars

\* C2 witness: a create call has returned successfully and its caller is an
\* admin of the organization it created.
C2_Witness ==
  \E s \in Sessions :
     /\ sess[s].op = "create" /\ sess[s].pc = "done" /\ sess[s].result = "ok"
     /\ \E o \in organizations : o.id = sess[s].org_id /\ o.created_by = sess[s].uid
     /\ is_org_member(sess[s].org_id, sess[s].uid, "admin")

\* C3: two accept_invitation calls in sequence on one invitation by its
\* invitee: the first, which found the invitation pending, succeeds; the
\* second fails with 'not found or already actioned'; afterwards exactly one
\* membership row exists for (organization, invitee) and the invitation is
\* accepted.
C3_AcceptTwice ==
  LET a == sess["s1"]
      b == sess["s2"]
  IN (/\ a.op = "accept" /\ a.pc = "done"
      /\ a.invite # NoInvite
      /\ a.uid \in Users /\ EmailOf(a.uid) = a.invite.invitee_email)
     => /\ a.result = "ok"
        /\ (b.op = "accept" /\ b.pc = "done"
              /\ b.invitation_id = a.invitation_id /\ b.uid = a.uid)
           => /\ b.result = "not_found"
              /\ Cardinality(MemberRows(a.invite.organization_id, a.uid)) = 1
              /\ \E i \in invitations :
                    i.id = a.invitation_id /\ i.status = "accepted"

\* C3 witness: both calls have returned, the second with the error.
C3_Witness ==
  LET a == sess["s1"]
      b == sess["s2"]
  IN /\ a.op = "accept" /\ a.pc = "done" /\ a.result = "ok"
     /\ b.op = "accept" /\ b.pc = "done" /\ b.result = "not_found"
     /\ b.invitation_id = a.invitation_id /\ b.uid = a.uid
     /\ Cardinality(MemberRows(a.invite.organization_id, a.uid)) = 1

\* C4: of two concurrent accept_invitation calls on the same pending
\* invitation at most one succeeds, and at most one membership row exists
\* for the (organization, principal) pair afterwards.
C4_ConcurrentAcceptOnce ==
  LET a == sess["s1"]
      b == sess["s2"]
  IN (/\ a.op = "accept" /\ a.pc = "done"
      /\ b.op = "accept" /\ b.pc = "done"
      /\ a.invitation_id = b.invitation_id
      /\ a.invite # NoInvite /\ b.invite # NoInvite)
     => /\ ~(a.result = "ok" /\ b.result = "ok")
        /\ Cardinality(MemberRows(a.invite.organization_id, a.uid)) <= 1

\* C5: in an organization with exactly two admins, each removing the other's
\* membership concurrently, at most one remove_organization_member call
\* succeeds, the other fails, and the organization ends with exactly one
\* admin. (The code raises no last-admin error anywhere, so the kind of
\* the failure is left open here: the statement is violated as it stands.)
C5_ConcurrentRemoveKeepsAdmin ==
  LET a == sess["s1"]
      b == sess["s2"]
  IN (/\ a.op = "remove" /\ a.pc = "done"
      /\ b.op = "remove" /\ b.pc = "done"
      /\ a.member.role = "admin" /\ b.member.role = "admin"
      /\ a.member.organization_id = b.member.organization_id
      /\ a.member.id # b.member.id
      /\ a.uid = b.member.user_id /\ b.uid = a.member.user_id)
     => /\ ~(a.result = "ok" /\ b.result = "ok")
        /\ (a.result # "ok" \/ b.result # "ok")
        /\ Cardinality(AdminRows(a.member.organization_id)) = 1

\* C6: in an organization with exactly two admins, each demoting the other
\* concurrently with update_organization_member_role, no interleaving ends
\* with zero admins in the organization.
C6_ConcurrentDemoteKeepsAdmin ==
  LET a == sess["s1"]
      b == sess["s2"]
  IN (/\ a.op = "update_role" /\ a.pc = "done" /\ a.role # "admin"
      /\ b.op = "update_role" /\ b.pc = "done" /\ b.role # "admin"
      /\ a.member.role = "admin" /\ b.member.role = "admin"
      /\ a.member.organization_id = b.member.organization_id
      /\ a.member.id # b.member.id
      /\ a.uid = b.member.user_id /\ b.uid = a.member.user_id)
     => Cardinality(AdminRows(a.member.organization_id)) >= 1

\* The row the call on s selected was the only admin row of its organization
SelectedSoleAdmin(r) ==
  /\ r.member.role = "admin"
  /\ \A m \in AdminRows(r.member.organization_id) : m.id = r.member.id

\* C7: remove_organization_member whose target is the only admin membership
\* of its organization fails, and the membership rows are unchanged.
C7_RemoveSoleAdminRefused ==
  \A s \in Sessions :
     LET r == sess[s]
     IN (r.op = "remove" /\ r.pc = "done" /\ SelectedSoleAdmin(r))
        => /\ r.result # "ok"
           /\ r.member \in organization_members

\* C8: update_organization_member_role that would make the only admin of an
\* organization an editor or a viewer is refused, and the role is unchanged.
C8_DemoteSoleAdminRefused ==
  \A s \in Sessions :
     LET r == sess[s]
     IN (r.op = "update_role" /\ r.pc = "done" /\ r.role \in {"editor", "viewer"}
           /\ SelectedSoleAdmin(r))
        => /\ r.result # "ok"
           /\ r.member \in organization_members

C10_AcceptByOtherForbidden ==
  [][ \A s \in Sessions :
        LET r == sess[s]
        IN (/\ r.op = "accept" /\ InFlight(s) /\ r.uid \in Users
            /\ \E i \in invitations :
                  /\ i.id = r.invitation_id
                  /\ i.status = "pending"
                  /\ i.invitee_email # EmailOf(r.uid))
           => /\ tables' = tables
              /\ sess'[s].ins_members = {} /\ sess'[s].upd_members = {}
              /\ sess'[s].upd_invitations = {}
              /\ sess'[s].pc \in {"accept_identity", "done"}
              /\ sess'[s].pc = "done" => sess'[s].result = "forbidden"
    ]_vars

\* C10 witness: an accept call by a principal other than the invitee has been
\* refused and the invitation is still pending.
C10_Witness ==
  \E s \in Sessions :
     /\ sess[s].op = "accept" /\ sess[s].pc = "done"
     /\ sess[s].result = "forbidden" /\ sess[s].uid \in Users
     /\ \E i \in invitations :
           /\ i.id = sess[s].invitation_id /\ i.status = "pending"
           /\ i.invitee_email # EmailOf(sess[s].uid)

Suffices ==
  {<<"admin", "admin">>, <<"admin", "editor">>, <<"admin", "viewer">>,
   <<"editor", "editor">>, <<"editor", "viewer">>, <<"viewer", "viewer">>}

C13_StatusOneWay ==
  [][ \A j \in invitations' :
        IF \E i \in invitations : i.id = j.id
          THEN LET i == CHOOSE x \in invitations : x.id = j.id
               IN j.status # i.status
                    => /\ i.status = "pending"
                       /\ j.status \in {"accepted", "declined"}
          ELSE j.status = "pending"
    ]_vars

\* C14: a step changes an invitation row only as the commit of an
\* accept_invitation or decline_invitation call on that row made by the
\* principal whose email is the row's invitee_email, and then it changes the
\* status alone; no other caller, an admin of the inviting organization
\* writing the table under its policies included, changes status, role or
\* invitee_email.
C14_OnlyInviteeChangesInvitation ==
  [][ \A i \in invitations : \A j \in invitations' :
        (j.id = i.id /\ j # i)
          => \E s \in Sessions :
                /\ sess[s].pc = "commit" /\ sess'[s].pc = "done"
                /\ sess[s].op \in {"accept", "decline"}
                /\ sess[s].invitation_id = i.id
                /\ sess[s].uid \in Users
                /\ EmailOf(sess[s].uid) = i.invitee_email
                /\ j = [i EXCEPT !.status =
                          IF sess[s].op = "accept" THEN "accepted" ELSE "declined"]
    ]_vars

\* C15: accept_invitation by the invitee is atomic. While the call is in
\* flight a step either leaves every table as it is, or it is the commit,
\* and then in one step the invitee's membership row in the invitation's
\* organization is the only one of that pair and has the invited role
\* (inserted if there was none, its role overwritten otherwise), the
\* invitation is accepted, and nothing else changes; a call that returned
\* successfully has done both.
C15_AcceptAtomic ==
  [][ \A s \in Sessions :
        LET r == sess[s]
            inv == SelectInvitationAnyStatus(r.invitation_id)
        IN (/\ r.op = "accept" /\ InFlight(s) /\ r.uid \in Users
            /\ inv.status = "pending" /\ EmailOf(r.uid) = inv.invitee_email)
           => /\ sess'[s].pc = "done" => sess'[s].result = "ok"
              /\ (sess'[s].pc = "done" \/ tables' # tables)
                 => /\ sess'[s].pc = "done"
                    /\ organizations' = organizations
                    /\ invitations' =
                         (invitations \ {inv}) \cup {[inv EXCEPT !.status = "accepted"]}
                    /\ \E m \in organization_members' :
                          /\ m.organization_id = inv.organization_id
                          /\ m.user_id = r.uid
                          /\ m.role = inv.role
                          /\ organization_members' \ {m} =
                               organization_members \ MemberRows(inv.organization_id, r.uid)
                          /\ \A old \in MemberRows(inv.organization_id, r.uid) :
                                old.id = m.id
    ]_vars

\* C15 witness: the invitee, already a member through a first invitation,
\* has accepted a second one at another role: the row of the first
\* acceptance now has the role of the second, and both invitations are
\* accepted.
C15_Witness ==
  \E s \in Sessions :
     LET r == sess[s]
     IN /\ r.op = "accept" /\ r.pc = "done" /\ r.result = "ok"
        /\ \E i \in invitations, k \in invitations :
              /\ i.id = r.invitation_id /\ i.status = "accepted"
              /\ k.id # i.id /\ k.status = "accepted"
              /\ k.invitee_email = i.invitee_email /\ k.role # i.role
              /\ \E m \in MemberRows(i.organization_id, r.uid) :
                    m.role = i.role
        \* no row was ever deleted, so the second acceptance found the row
        /\ Cardinality(organization_members) + 1 = nextMemberId

\* C16: decline_invitation by the invitee on a pending invitation returns
\* successfully, and its only change to the tables, made at its commit, is
\* that invitation's status, now declined: every membership row is as it
\* was. Called by another principal on a pending invitation it ends with the
\* 'not authorized' error, and on an invitation that is absent or not
\* pending with the 'not found or already actioned' error; in both cases no
\* step changes a table.
C16_Decline ==
  [][ \A s \in Sessions :
        LET r == sess[s]
            inv == SelectInvitationAnyStatus(r.invitation_id)
        IN (r.op = "decline" /\ InFlight(s) /\ r.uid \in Users)
           => IF inv.status = "pending" /\ EmailOf(r.uid) = inv.invitee_email
                THEN /\ sess'[s].pc = "done" => sess'[s].result = "ok"
                     /\ organization_members' = organization_members
                     /\ organizations' = organizations
                     /\ (sess'[s].pc = "done" \/ invitations' # invitations)
                        => /\ sess'[s].pc = "done"
                           /\ invitations' = (invitations \ {inv}) \cup
                                {[inv EXCEPT !.status = "declined"]}
                ELSE /\ tables' = tables
                     /\ sess'[s].upd_invitations = {}
                     /\ sess'[s].pc \in {"decline_identity", "done"}
                     /\ sess'[s].pc = "done"
                        => sess'[s].result =
                             IF inv.status = "pending" THEN "forbidden"
                                                       ELSE "not_found"
    ]_vars

\* C16 witness: the invitee has declined; the invitation is declined and the
\* invitee has no membership row in its organization.
C16_Witness ==
  \E s \in Sessions :
     LET r == sess[s]
     IN /\ r.op = "decline" /\ r.pc = "done" /\ r.result = "ok"
        /\ r.uid \in Users /\ EmailOf(r.uid) = r.invite.invitee_email
        /\ [r.invite EXCEPT !.status = "declined"] \in invitations
        /\ MemberRows(r.invite.organization_id, r.uid) = {}

\* C17: in every reachable state organization_members holds at most one row
\* for each pair of an organization and a user.
C17_UniqueMembership ==
  \A m1 \in organization_members, m2 \in organization_members :
     (m1.organization_id = m2.organization_id /\ m1.user_id = m2.user_id)
       => m1 = m2

\* C17 witness: a user whose email two accepted invitations of one
\* organization name has one membership row there.
C17_Witness ==
  \E i \in invitations, k \in invitations, u \in Users :
     /\ i.id # k.id /\ i.organization_id = k.organization_id
     /\ i.status = "accepted" /\ k.status = "accepted"
     /\ i.invitee_email = EmailOf(u) /\ k.invitee_email = EmailOf(u)
     /\ Cardinality(MemberRows(i.organization_id, u)) = 1

\* C18: update_organization_member_role and remove_organization_member
\* called with an id that no membership row has end with a not-found error,
\* not the 'Only admins' error a non-admin gets, and no step of the call
\* writes a row.
C18_MissingMemberNotFound ==
  [][ \A s \in Sessions :
        LET r == sess[s]
        IN (/\ r.op \in {"update_role", "remove"} /\ InFlight(s)
            /\ r.uid \in Users
            /\ ~\E m \in organization_members : m.id = r.member_id)
           => /\ tables' = tables
              /\ sess'[s].upd_members = {} /\ sess'[s].del_members = {}
              /\ sess'[s].pc \in {"update_check", "remove_check", "done"}
              /\ sess'[s].pc = "done" => sess'[s].result = "not_found"
    ]_vars

\* C19: accept_invitation tests the status before the identity. On an
\* invitation that is absent, accepted or declined its first step ends the
\* call with 'not found or already actioned', whoever the caller is, and
\* changes nothing; a call ends with the 'not authorized' error only when
\* the invitation is pending and the caller's email is not its
\* invitee_email.
C19_PendingBeforeIdentity ==
  [][ \A s \in Sessions :
        LET r == sess[s]
            inv == SelectInvitationAnyStatus(r.invitation_id)
        IN (r.op = "accept" /\ InFlight(s))
           => /\ inv.status # "pending"
                 => /\ tables' = tables
                    /\ sess'[s].pc = "done"
                    /\ sess'[s].result = "not_found"
              /\ (sess'[s].pc = "done" /\ sess'[s].result = "forbidden")
                 => /\ inv.status = "pending"
                    /\ r.uid \in Users
                    /\ EmailOf(r.uid) # inv.invitee_email
    ]_vars

\* C19 witness: a user who is not the invitee called accept on an invitation
\* already accepted or declined and got 'not found or already actioned'.
C19_Witness ==
  \E s \in Sessions :
     LET r == sess[s]
     IN /\ r.op = "accept" /\ r.pc = "done" /\ r.result = "not_found"
        /\ r.uid \in Users
        /\ \E i \in invitations :
              /\ i.id = r.invitation_id
              /\ i.status \in {"accepted", "declined"}
              /\ i.invitee_email # EmailOf(r.uid)

\* C20: in every reachable state, a SELECT of a caller returns an
\* organizations row or an organization_members row only if the caller has
\* a membership row in that organization, and an invitations row only if
\* the caller has an admin membership row in the invitation's organization
\* or the caller's email is the row's invitee_email.
C20_ReadPolicies ==
  \A p \in Callers :
     /\ \A o \in organizations :
           CanSelectOrganization(p, o)
             => p \in Users /\ MemberRows(o.id, p) # {}
     /\ \A m \in organization_members :
           CanSelectMember(p, m)
             => p \in Users /\ MemberRows(m.organization_id, p) # {}
     /\ \A i \in invitations :
           CanSelectInvitation(p, i)
             => /\ p \in Users
                /\ \/ \E m \in MemberRows(i.organization_id, p) : m.role = "admin"
                   \/ EmailOf(p) = i.invitee_email

\* C20 witness: an editor or viewer of an organization reads its row and
\* its membership rows but not an invitation of that organization
\* addressed to someone else, which the invitee reads.
C20_Witness ==
  \E o \in organizations, i \in invitations, p \in Users, q \in Users :
     /\ i.organization_id = o.id
     /\ \E m \in MemberRows(o.id, p) : m.role # "admin"
     /\ EmailOf(p) # i.invitee_email /\ EmailOf(q) = i.invitee_email
     /\ CanSelectOrganization(p, o)
     /\ \A m \in organization_members :
           m.organization_id = o.id => CanSelectMember(p, m)
     /\ ~CanSelectInvitation(p, i)
     /\ CanSelectInvitation(q, i)

\* C21: a call that ends in a raised error leaves organizations,
\* organization_members and invitations as they were: the step that ends a
\* call with an error changes no table and leaves none of the call's writes
\* pending, and the tables change only in the step that commits a call,
\* which then returns successfully.
C21_ErrorLeavesTables ==
  [][ /\ \A s \in Sessions :
            (InFlight(s) /\ sess'[s].pc = "done" /\ sess'[s].result # "ok")
              => /\ tables' = tables
                 /\ sess'[s].ins_orgs = {} /\ sess'[s].ins_members = {}
                 /\ sess'[s].upd_members = {} /\ sess'[s].del_members = {}
                 /\ sess'[s].ins_invitations = {}
                 /\ sess'[s].upd_invitations = {}
      /\ tables' # tables
            => \E s \in Sessions :
                  /\ sess[s].pc = "commit"
                  /\ sess'[s].pc = "done" /\ sess'[s].result = "ok"
    ]_vars

\* C21 witness: a create call failed at its second INSERT, after the first
\* had written the organization row, and no row of that organization is in
\* the tables.
C21_Witness ==
  \E s \in Sessions :
     /\ sess[s].op = "create" /\ sess[s].pc = "done"
     /\ sess[s].result = "not_null_violation"
     /\ sess[s].org_id # NULLID
     /\ \A o \in organizations : o.id # sess[s].org_id
     /\ \A m \in organization_members : m.organization_id # sess[s].org_id

C24_AcceptKeepsAdmin ==
  [][ \A s \in Sessions :
        (sess[s].op = "accept" /\ sess[s].pc = "commit" /\ sess'[s].pc = "done")
          => \A o \in organizations :
                AdminRows(o.id) # {}
                  => \E m \in organization_members' :
                        m.organization_id = o.id /\ m.role = "admin"
    ]_vars

\* C25: accept_invitation and decline_invitation by the invitee on one
\* invitation, both of which found it pending, interleaved statement by
\* statement: once both have returned exactly one of them has succeeded,
\* and the invitation is not declined with the accept having written the
\* membership.
C25_AcceptDeclineRace ==
  \A s \in Sessions, t \in Sessions :
     LET a == sess[s]
         d == sess[t]
     IN (/\ a.op = "accept" /\ a.pc = "done"
         /\ d.op = "decline" /\ d.pc = "done"
         /\ a.invitation_id = d.invitation_id
         /\ a.invite # NoInvite /\ d.invite # NoInvite
         /\ a.uid \in Users /\ a.uid = d.uid
         /\ EmailOf(a.uid) = a.invite.invitee_email)
        => /\ ~(a.result = "ok" /\ d.result = "ok")
           /\ (a.result = "ok" \/ d.result = "ok")
           /\ ~(/\ a.result = "ok"
                 /\ \E i \in invitations :
                       i.id = a.invitation_id /\ i.status = "declined")

\* C26: in the revisions of the admin-guarded procedures whose guard is
\* evaluated on a missing membership row (part_003's invite, update role
\* and remove, part_006's invite), a call by a user with no membership row
\* in the target organization is rejected (it raises, whatever the
\* exception) and writes nothing.
C26_NonMemberRejected ==
  [][ \A s \in Sessions :
        LET r == sess'[s]
            org == IF r.op \in {"invite_part_003", "invite_part_006"}
                     THEN r.org_id
                     ELSE SelectMember(r.member_id).organization_id
        IN (/\ vars' # vars
            /\ r.op \in {"invite_part_003", "invite_part_006",
                         "update_role_part_003", "remove_part_003"}
            /\ r.uid \in Users
            /\ org \in OrgIds
            /\ ~\E m \in organization_members :
                   m.organization_id = org /\ m.user_id = r.uid)
           => /\ r.result # "ok"
              /\ tables' = tables ]_vars

\* C28: part_003's remove_organization_member, called one at a time: a
\* removal that succeeds on an organization that has an admin leaves it
\* with an admin.
C28_RemoveKeepsAdmin ==
  [][ \A s \in Sessions :
        LET r == sess'[s]
            org == SelectMember(r.member_id).organization_id
        IN (/\ vars' # vars
            /\ r.op = "remove_part_003" /\ r.result = "ok"
            /\ r.uid \in Users
            /\ org \in OrgIds
            /\ \E m \in organization_members :
                   m.organization_id = org /\ m.role = "admin")
           => \E m \in organization_members' :
                 m.organization_id = org /\ m.role = "admin" ]_vars

\* C27: part_004's is_org_member (the enum comparison) returns what the
\* numeric-level is_org_member returns, for every organization, user
\* (member at any role, or not a member) and min_role.
C27_EnumRevisionAgrees ==
  \A o \in organizations, u \in Users, min_role \in user_role :
     is_org_member_part_004(o.id, u, min_role)
       <=> is_org_member(o.id, u, min_role)

\* The rows of a table that belong to organization org
RowsOf(T, org) == {x \in T : x.organization_id = org}

\* Rows compared without their generated ids
NoId(T) == {[x EXCEPT !.id = NULLID] : x \in T}

\* The organization a call acts on: the org_id passed to invite, the
\* organization of the invitation passed to accept and decline, of the
\* membership passed to update role and remove
TargetOrg(r) ==
  CASE r.op = "invite" -> r.org_id
    [] r.op \in {"accept", "decline"} ->
         SelectInvitationAnyStatus(r.invitation_id).organization_id
    [] r.op \in {"update_role", "remove"} ->
         SelectMember(r.member_id).organization_id
    [] OTHER -> NULLID

\* What a call, run alone, returns and leaves behind when the membership
\* rows are M and the invitation rows I: the procedures of
\* final_schema_reset.sql read as functions of the tables they are given
OutcomeOn(r, M, I) ==
  LET isAdmin(org) ==
        \E m \in M : /\ m.organization_id = org /\ m.user_id = r.uid
                     /\ RoleLevel(m.role) >= RoleLevel("admin")
      out(result, M2, I2) ==
        [result |-> result, members |-> M2, invitations |-> I2]
      pending == {i \in I : i.id = r.invitation_id /\ i.status = "pending"}
      invite == CHOOSE i \in pending : TRUE
      mine == {m \in M : m.organization_id = invite.organization_id
                          /\ m.user_id = r.uid}
      targets == {m \in M : m.id = r.member_id}
      memberOrg == IF targets = {} THEN NULLID
                   ELSE (CHOOSE m \in targets : TRUE).organization_id
      setStatus(status) ==
        {IF i.id = r.invitation_id THEN [i EXCEPT !.status = status] ELSE i :
           i \in I}
  IN CASE r.op = "invite" ->
            IF ~isAdmin(r.org_id) THEN out("forbidden", M, I)
            ELSE out("ok", M,
                     I \cup {[id |-> NULLID, organization_id |-> r.org_id,
                              invited_by |-> r.uid,
                              invitee_email |-> r.invitee_email,
                              role |-> r.role, status |-> "pending"]})
       [] r.op = "accept" ->
            IF pending = {} THEN out("not_found", M, I)
            ELSE IF EmailDiffers(r.uid, invite.invitee_email)
              THEN out("forbidden", M, I)
            ELSE IF r.uid = NULL THEN out("not_null_violation", M, I)
            ELSE out("ok",
                     IF mine = {}
                       THEN M \cup {[id |-> NULLID,
                                     organization_id |-> invite.organization_id,
                                     user_id |-> r.uid, role |-> invite.role]}
                       ELSE {IF m \in mine THEN [m EXCEPT !.role = invite.role]
                               ELSE m : m \in M},
                     setStatus("accepted"))
       [] r.op = "decline" ->
            IF pending = {} THEN out("not_found", M, I)
            ELSE IF EmailDiffers(r.uid, invite.invitee_email)
              THEN out("forbidden", M, I)
            ELSE out("ok", M, setStatus("declined"))
       [] r.op = "update_role" ->
            IF ~isAdmin(memberOrg) THEN out("forbidden", M, I)
            ELSE out("ok",
                     {IF m.id = r.member_id THEN [m EXCEPT !.role = r.role]
                        ELSE m : m \in M}, I)
       [] r.op = "remove" ->
            IF ~isAdmin(memberOrg) THEN out("forbidden", M, I)
            ELSE out("ok", {m \in M : m.id # r.member_id}, I)
       [] OTHER -> out("none", M, I)

\* C29: a call of invite, accept, decline, update role or remove acting on
\* organization O, run alone: the rows of every other organization are
\* left as they were, and the call's result and the rows of O it leaves
\* are those determined by the rows of O and the caller alone. No other
\* step changes a table.
C29_OtherOrganizationsUntouched ==
  [][ /\ \A s \in Sessions :
           LET r == sess[s]
               O == TargetOrg(r)
               own == OutcomeOn(r, RowsOf(organization_members, O),
                                RowsOf(invitations, O))
           IN (InFlight(s) /\ sess'[s].pc = "done")
                => /\ sess'[s].result = own.result
                   /\ NoId(RowsOf(organization_members', O)) = NoId(own.members)
                   /\ NoId(RowsOf(invitations', O)) = NoId(own.invitations)
                   /\ \A o \in organizations :
                         o.id # O
                           => /\ RowsOf(organization_members', o.id)
                                   = RowsOf(organization_members, o.id)
                              /\ RowsOf(invitations', o.id)
                                   = RowsOf(invitations, o.id)
      /\ (\A s \in Sessions : ~(InFlight(s) /\ sess'[s].pc = "done"))
           => tables' = tables ]_vars

\* An accept on the first organization has succeeded while the second
\* holds a membership and an invitation of the same invitee
C29_Witness ==
  LET r == sess["s1"]
  IN /\ r.op = "accept" /\ r.pc = "done" /\ r.result = "ok"
     /\ r.invite.organization_id = 1
     /\ RowsOf(organization_members, 2) # {}
     /\ \E i \in RowsOf(invitations, 2) :
           i.invitee_email = r.invite.invitee_email /\ i.status = "pending"
     /\ \E m \in RowsOf(organization_members, 1) :
           m.user_id = r.uid /\ m.role = r.invite.role

\* C30: update_organization_member_role and remove_organization_member
\* issued through TeamManagement only, one call at a time: a call names a
\* membership of a user other than the caller; no call changes or deletes
\* the caller's own membership; an organization that has an admin has one
\* after every step.
C30_TeamManagementKeepsAdmin ==
  [][ /\ \A s \in Sessions :
           LET r == sess'[s]
           IN (sess[s].pc = "idle" /\ r.op \in {"update_role", "remove"})
                => \A m \in organization_members :
                      m.id = r.member_id => m.user_id # r.uid
      /\ \A s \in Sessions :
           (sess[s].op \in {"update_role", "remove"} /\ sess[s].pc = "commit")
             => \A m \in organization_members :
                   m.user_id = sess[s].uid => m \in organization_members'
      /\ \A o \in organizations :
           AdminRows(o.id) # {}
             => \E m \in organization_members' :
                   m.organization_id = o.id /\ m.role = "admin" ]_vars

\* An admin has demoted the other admin through the component
C30_Witness ==
  LET r == sess["s1"]
  IN /\ r.op = "update_role" /\ r.pc = "done" /\ r.result = "ok"
     /\ r.member.role = "admin" /\ r.role # "admin"
     /\ r.member.user_id \in Users \ {r.uid}
     /\ \E m \in organization_members :
           m.id = r.member_id /\ m.role = r.role
     /\ \E m \in organization_members :
           m.user_id = r.uid /\ m.role = "admin"
              /\ m.organization_id = r.member.organization_id

=============================================================================
